---- MODULE Spec2Model ----
(***************************************************************************)
(* Model of the banking application: class BankAccount (deposit, withdraw, *)
(* transfer, top_up_mobile), class BankingApp (the seeded ledger,          *)
(* get_account, process_user_input).                                       *)
(*                                                                         *)
(* The heap of BankAccount objects is the function `accounts`, keyed by    *)
(* the account number under which BankingApp.__init__ stores the object;   *)
(* the dictionary is never modified after construction, so a reference to  *)
(* an account object is its key.  Any other value handed to a method where *)
(* an account is expected (a string, say) is a value outside DOMAIN        *)
(* accounts.                                                               *)
(*                                                                         *)
(* Amounts are Python floats.  The inputs of the model are integer valued  *)
(* and far below 2^53, where float addition, subtraction and comparison    *)
(* are exact, so they are modelled by Int.  Strings that float() reads     *)
(* are sequences of one-character strings.                                 *)
(*                                                                         *)
(* A method is an operator from the heap and its arguments to an outcome   *)
(* [raised, accounts]: the exception that left the method ("None" when it  *)
(* returned) and the heap as the method left it.  An outcome can therefore *)
(* express a heap that was changed before the exception was raised.        *)
(***************************************************************************)
EXTENDS Integers, Sequences, FiniteSets, TLC

VARIABLES accounts, call, raised

vars == <<accounts, call, raised>>

\* ----------------------------------------------------------------- bounds
\* Deposits, transfers and top-ups have no upper limit in the program; a
\* call whose resulting balance would exceed these is not taken.
MaxBalance == 2000
MaxMobile == 1000

\* ------------------------------------------------------------- exceptions
BankingException ==
    {"InsufficientFundsError", "InvalidAmountError",
     "InvalidChoiceError", "InvalidAccountError"}

Return(accts) == [raised |-> "None", accounts |-> accts]

Raise(accts, exc) == [raised |-> exc, accounts |-> accts]

\* ------------------------------------------------------------ BankAccount
BankAccount(account_number, account_holder, balance) ==
    [account_number |-> account_number, account_holder |-> account_holder,
     balance |-> balance, mobile_balance |-> 0]

isinstance_BankAccount(accts, ref) == ref \in DOMAIN accts

\* Zero passes the amount check.
deposit_accepts_zero(accts, self, amount) ==
    IF amount < 0
    THEN Raise(accts, "InvalidAmountError")
    ELSE Return([accts EXCEPT ![self].balance = @ + amount])

deposit(accts, self, amount) ==
    IF amount <= 0
    THEN Raise(accts, "InvalidAmountError")
    ELSE Return([accts EXCEPT ![self].balance = @ + amount])

\* The whole balance cannot be withdrawn.
withdraw_rejects_whole_balance(accts, self, amount) ==
    IF amount <= 0
    THEN Raise(accts, "InvalidAmountError")
    ELSE IF amount >= accts[self].balance
    THEN Raise(accts, "InsufficientFundsError")
    ELSE Return([accts EXCEPT ![self].balance = @ - amount])

withdraw_without_funds_check(accts, self, amount) ==
    IF amount <= 0
    THEN Raise(accts, "InvalidAmountError")
    ELSE Return([accts EXCEPT ![self].balance = @ - amount])

withdraw(accts, self, amount) ==
    IF amount <= 0
    THEN Raise(accts, "InvalidAmountError")
    ELSE IF amount > accts[self].balance
    THEN Raise(accts, "InsufficientFundsError")
    ELSE Return([accts EXCEPT ![self].balance = @ - amount])

\* The debit is written before the funds check.
transfer_debits_before_check(accts, self, target_account, amount) ==
    IF ~isinstance_BankAccount(accts, target_account)
    THEN Raise(accts, "InvalidAccountError")
    ELSE IF amount <= 0
    THEN Raise(accts, "InvalidAmountError")
    ELSE LET debited == [accts EXCEPT ![self].balance = @ - amount]
         IN  IF amount > accts[self].balance
             THEN Raise(debited, "InsufficientFundsError")
             ELSE Return([debited EXCEPT ![target_account].balance = @ + amount])

\* Both new balances are computed from the balances read before the debit.
transfer_from_stale_balances(accts, self, target_account, amount) ==
    IF ~isinstance_BankAccount(accts, target_account)
    THEN Raise(accts, "InvalidAccountError")
    ELSE IF amount <= 0
    THEN Raise(accts, "InvalidAmountError")
    ELSE IF amount > accts[self].balance
    THEN Raise(accts, "InsufficientFundsError")
    ELSE LET debited == [accts EXCEPT ![self].balance = accts[self].balance - amount]
         IN  Return([debited EXCEPT
                       ![target_account].balance = accts[target_account].balance + amount])

\* The amount is validated before the target.
transfer_checks_amount_first(accts, self, target_account, amount) ==
    IF amount <= 0
    THEN Raise(accts, "InvalidAmountError")
    ELSE IF amount > accts[self].balance
    THEN Raise(accts, "InsufficientFundsError")
    ELSE IF ~isinstance_BankAccount(accts, target_account)
    THEN Raise(accts, "InvalidAccountError")
    ELSE LET debited == [accts EXCEPT ![self].balance = @ - amount]
         IN  Return([debited EXCEPT ![target_account].balance = @ + amount])

transfer(accts, self, target_account, amount) ==
    IF ~isinstance_BankAccount(accts, target_account)
    THEN Raise(accts, "InvalidAccountError")
    ELSE IF amount <= 0
    THEN Raise(accts, "InvalidAmountError")
    ELSE IF amount > accts[self].balance
    THEN Raise(accts, "InsufficientFundsError")
    ELSE LET debited == [accts EXCEPT ![self].balance = @ - amount]
         IN  Return([debited EXCEPT ![target_account].balance = @ + amount])

\* The mobile credit is assigned, not added.
top_up_mobile_assigns_credit(accts, self, amount) ==
    IF amount <= 0
    THEN Raise(accts, "InvalidAmountError")
    ELSE IF amount > accts[self].balance
    THEN Raise(accts, "InsufficientFundsError")
    ELSE LET debited == [accts EXCEPT ![self].balance = @ - amount]
         IN  Return([debited EXCEPT ![self].mobile_balance = amount])

\* The mobile credit is added and the balance is not debited.
top_up_mobile_without_debit(accts, self, amount) ==
    IF amount <= 0
    THEN Raise(accts, "InvalidAmountError")
    ELSE IF amount > accts[self].balance
    THEN Raise(accts, "InsufficientFundsError")
    ELSE Return([accts EXCEPT ![self].mobile_balance = @ + amount])

top_up_mobile(accts, self, amount) ==
    IF amount <= 0
    THEN Raise(accts, "InvalidAmountError")
    ELSE IF amount > accts[self].balance
    THEN Raise(accts, "InsufficientFundsError")
    ELSE LET debited == [accts EXCEPT ![self].balance = @ - amount]
         IN  Return([debited EXCEPT ![self].mobile_balance = @ + amount])

\* ------------------------------------------------------------------ float
\* float(str) for the strings of the model's alphabet: surrounding white
\* space is dropped, one sign is read, and what is left must be one or more
\* decimal digits; anything else raises ValueError.
DigitValue ==
    ("0" :> 0) @@ ("1" :> 1) @@ ("2" :> 2) @@ ("3" :> 3) @@ ("4" :> 4) @@
    ("5" :> 5) @@ ("6" :> 6) @@ ("7" :> 7) @@ ("8" :> 8) @@ ("9" :> 9)

RECURSIVE lstrip(_)
lstrip(s) == IF s # <<>> /\ Head(s) = " " THEN lstrip(Tail(s)) ELSE s

RECURSIVE rstrip(_)
rstrip(s) ==
    IF s # <<>> /\ s[Len(s)] = " " THEN rstrip(SubSeq(s, 1, Len(s) - 1)) ELSE s

strip(s) == rstrip(lstrip(s))

RECURSIVE digits_value(_)
digits_value(s) ==
    IF s = <<>> THEN 0
    ELSE 10 * digits_value(SubSeq(s, 1, Len(s) - 1)) + DigitValue[s[Len(s)]]

float(s) ==
    LET t == strip(s)
        signed == t # <<>> /\ Head(t) \in {"+", "-"}
        body == IF signed THEN Tail(t) ELSE t
    IN  IF body = <<>> \/ \E i \in 1..Len(body) : body[i] \notin DOMAIN DigitValue
        THEN [raised |-> "ValueError", value |-> 0]
        ELSE [raised |-> "None",
              value |-> IF signed /\ Head(t) = "-"
                        THEN 0 - digits_value(body)
                        ELSE digits_value(body)]

\* data[key]: the subscript of a dict raises KeyError on a missing key.
has_key(data, key) == key \in DOMAIN data

\* ------------------------------------------------------------- BankingApp
get_account(accts, account_number) ==
    IF account_number \in DOMAIN accts
    THEN [raised |-> "None", account |-> account_number]
    ELSE [raised |-> "InvalidAccountError", account |-> account_number]

\* The branches of process_user_input that read data["amount"] and call one
\* method of the source account.
amount_choice(accts, choice, account, data) ==
    IF ~has_key(data, "amount")
    THEN Raise(accts, "KeyError")
    ELSE LET amount == float(data["amount"])
         IN  IF amount.raised # "None"
             THEN Raise(accts, amount.raised)
             ELSE CASE choice = "deposit" -> deposit(accts, account, amount.value)
                    [] choice = "withdraw" -> withdraw(accts, account, amount.value)
                    [] choice = "top_up" -> top_up_mobile(accts, account, amount.value)

\* The amount is read and parsed before the target account is resolved.
transfer_choice_parses_first(accts, account, data) ==
    IF ~has_key(data, "amount")
    THEN Raise(accts, "KeyError")
    ELSE LET amount == float(data["amount"])
         IN  IF amount.raised # "None"
             THEN Raise(accts, amount.raised)
             ELSE IF ~has_key(data, "target_account")
             THEN Raise(accts, "KeyError")
             ELSE LET target_account == get_account(accts, data["target_account"])
                  IN  IF target_account.raised # "None"
                      THEN Raise(accts, target_account.raised)
                      ELSE transfer(accts, account, target_account.account,
                                    amount.value)

transfer_choice(accts, account, data) ==
    IF ~has_key(data, "target_account")
    THEN Raise(accts, "KeyError")
    ELSE LET target_account == get_account(accts, data["target_account"])
         IN  IF target_account.raised # "None"
             THEN Raise(accts, target_account.raised)
             ELSE IF ~has_key(data, "amount")
             THEN Raise(accts, "KeyError")
             ELSE LET amount == float(data["amount"])
                  IN  IF amount.raised # "None"
                      THEN Raise(accts, amount.raised)
                      ELSE transfer(accts, account, target_account.account,
                                    amount.value)

\* The operation name is looked at before the source account is resolved.
process_user_input_checks_choice_first(accts, choice, account_number, data) ==
    IF choice \notin {"deposit", "withdraw", "balance", "transfer", "top_up"}
    THEN Raise(accts, "InvalidChoiceError")
    ELSE LET account == get_account(accts, account_number)
         IN  IF account.raised # "None"
             THEN Raise(accts, account.raised)
             ELSE IF choice \in {"deposit", "withdraw", "top_up"}
             THEN amount_choice(accts, choice, account.account, data)
             ELSE IF choice = "balance"
             THEN Return(accts)
             ELSE transfer_choice(accts, account.account, data)

process_user_input(accts, choice, account_number, data) ==
    LET account == get_account(accts, account_number)
    IN  IF account.raised # "None"
        THEN Raise(accts, account.raised)
        ELSE IF choice \in {"deposit", "withdraw", "top_up"}
        THEN amount_choice(accts, choice, account.account, data)
        ELSE IF choice = "balance"
        THEN Return(accts)
        ELSE IF choice = "transfer"
        THEN transfer_choice(accts, account.account, data)
        ELSE Raise(accts, "InvalidChoiceError")

BankingApp_init ==
    ("1001" :> BankAccount("1001", "Alice Smith", 1000)) @@
    ("1002" :> BankAccount("1002", "Bob Johnson", 1500)) @@
    ("1003" :> BankAccount("1003", "Charlie Brown", 500))

InBounds(accts) ==
    \A a \in DOMAIN accts :
        /\ accts[a].balance <= MaxBalance
        /\ accts[a].mobile_balance <= MaxMobile

Init ==
    /\ accounts = BankingApp_init
    /\ call = [api |-> "__init__"]
    /\ raised = "None"

\* ----------------------------------------------------------------- inputs
\* What the presentation layer and the tests hand to process_user_input.
Choices == {"balance", "deposit", "withdraw", "transfer", "top_up", "invalid_choice"}

AccountNumbers == {"1001", "1002", "1003", "9999"}

AmountStrings ==
    { <<"1", "0", "0", "0">>, <<" ", "0">>, <<"-", "1", "0", "0">>, <<"a", "b", "c">> }

NoData == [k \in {} |-> ""]

\* The form hands both keys whatever the operation; tests hand the keys the
\* operation reads, or none.
DataInputs(choice) ==
    IF choice = "transfer"
    THEN {NoData}
         \cup {[amount |-> s] : s \in AmountStrings}
         \cup {[target_account |-> t] : t \in AccountNumbers}
         \cup {[amount |-> s, target_account |-> t] :
                 s \in AmountStrings, t \in AccountNumbers}
    ELSE IF choice \in {"deposit", "withdraw", "top_up"}
    THEN {NoData, [amount |-> <<"1", "0", "0", "0">>, target_account |-> "1002"]}
         \cup {[amount |-> s] : s \in AmountStrings}
    ELSE {NoData, [amount |-> <<>>, target_account |-> ""]}

\* What the unit tests hand to the methods of BankAccount.
Amounts == {-100, 0, 1000}

TargetRefs == DOMAIN BankingApp_init \cup {"not_an_account"}

\* ---------------------------------------------------------------- actions
Apply(outcome, c) ==
    /\ InBounds(outcome.accounts)
    /\ accounts' = outcome.accounts
    /\ raised' = outcome.raised
    /\ call' = c

ProcessUserInput ==
    \E choice \in Choices, account_number \in AccountNumbers :
      \E data \in DataInputs(choice) :
        Apply(process_user_input(accounts, choice, account_number, data),
              [api |-> "process_user_input", choice |-> choice,
               account_number |-> account_number, data |-> data])

Deposit ==
    \E self \in DOMAIN accounts, amount \in Amounts :
        Apply(deposit(accounts, self, amount),
              [api |-> "deposit", self |-> self, amount |-> amount])

Withdraw ==
    \E self \in DOMAIN accounts, amount \in Amounts :
        Apply(withdraw(accounts, self, amount),
              [api |-> "withdraw", self |-> self, amount |-> amount])

Transfer ==
    \E self \in DOMAIN accounts, target_account \in TargetRefs, amount \in Amounts :
        Apply(transfer(accounts, self, target_account, amount),
              [api |-> "transfer", self |-> self, amount |-> amount,
               target_account |-> target_account])

TopUpMobile ==
    \E self \in DOMAIN accounts, amount \in Amounts :
        Apply(top_up_mobile(accounts, self, amount),
              [api |-> "top_up_mobile", self |-> self, amount |-> amount])

\* The application: every call goes through process_user_input.
Next == ProcessUserInput

Spec == Init /\ [][Next]_vars

\* The class BankAccount used directly, as its unit tests use it.
AccountNext == Deposit \/ Withdraw \/ Transfer \/ TopUpMobile

AccountSpec == Init /\ [][AccountNext]_vars

\* ------------------------------------------------------------ definitions
\* used by the properties
IsDispatch(c) == c.api = "process_user_input"

Ledger(c) == c.account_number \in DOMAIN BankingApp_init

DispatchAmount(c) == float(c.data["amount"]).value

balance_of(accts, a) == accts[a].balance

mobile_of(accts, a) == accts[a].mobile_balance

RECURSIVE SumOver(_, _)
SumOver(accts, ids) ==
    IF ids = {} THEN 0
    ELSE LET a == CHOOSE x \in ids : TRUE
         IN  accts[a].balance + accts[a].mobile_balance + SumOver(accts, ids \ {a})

Total(accts) == SumOver(accts, DOMAIN accts)

ValidTarget(c) == c.api = "transfer" => c.target_account \in DOMAIN accounts

SelfTransfer(c) == c.api = "transfer" /\ c.target_account = c.self

Debiting == {"withdraw", "transfer", "top_up_mobile"}

Recognised == {"balance", "deposit", "withdraw", "transfer", "top_up"}

NonNumericTransfer(c) ==
    /\ IsDispatch(c) /\ c.choice = "transfer" /\ Ledger(c)
    /\ has_key(c.data, "amount") /\ has_key(c.data, "target_account")
    /\ float(c.data["amount"]).raised = "ValueError"

NonNegative ==
    \A a \in DOMAIN accounts :
        balance_of(accounts, a) >= 0 /\ mobile_of(accounts, a) >= 0

OthersUnchanged(touched) ==
    \A a \in DOMAIN accounts \ touched : accounts'[a] = accounts[a]

\* What a dispatch that returned must have written, per operation.
Committed(c) ==
    LET s == c.account_number
    IN  CASE c.choice = "balance" -> accounts' = accounts
          [] c.choice = "deposit" ->
                balance_of(accounts', s) = balance_of(accounts, s) + DispatchAmount(c)
          [] c.choice = "withdraw" ->
                balance_of(accounts', s) = balance_of(accounts, s) - DispatchAmount(c)
          [] c.choice = "top_up" ->
                /\ balance_of(accounts', s) = balance_of(accounts, s) - DispatchAmount(c)
                /\ mobile_of(accounts', s) = mobile_of(accounts, s) + DispatchAmount(c)
          [] c.choice = "transfer" ->
                LET t == c.data["target_account"]
                IN  IF s = t
                    THEN accounts' = accounts
                    ELSE /\ balance_of(accounts', s) =
                              balance_of(accounts, s) - DispatchAmount(c)
                         /\ balance_of(accounts', t) =
                              balance_of(accounts, t) + DispatchAmount(c)

\* ----------------------------------------------------------------- claims
\* C1: every call of process_user_input is all-or-nothing: it raises and
\* every account is exactly as before the call, or it returns and all the
\* balance changes of its operation are written (a debit never stands
\* without its credit).
C1_AllOrNothing ==
    [][IsDispatch(call') =>
          \/ raised' # "None" /\ accounts' = accounts
          \/ raised' = "None" /\ Committed(call')]_vars

C1_Witness ==
    /\ IsDispatch(call) /\ call.choice = "transfer"
    /\ raised = "InsufficientFundsError"

\* C2: a successful transfer keeps source.balance + target.balance; between
\* two different accounts the source loses exactly amount and the target
\* gains exactly amount; from an account to itself the balance is unchanged.
C2_TransferConserves ==
    [][call'.api = "transfer" /\ raised' = "None" =>
          LET s == call'.self
              t == call'.target_account
          IN  /\ balance_of(accounts', s) + balance_of(accounts', t) =
                   balance_of(accounts, s) + balance_of(accounts, t)
              /\ s # t =>
                   /\ balance_of(accounts', s) = balance_of(accounts, s) - call'.amount
                   /\ balance_of(accounts', t) = balance_of(accounts, t) + call'.amount
              /\ s = t => balance_of(accounts', s) = balance_of(accounts, s)]_vars

C2_Witness ==
    /\ call.api = "transfer" /\ raised = "None"
    /\ call.self = call.target_account

\* C3 as stated: every debiting operation (withdraw, transfer,
\* top_up_mobile) with a positive amount raises InsufficientFundsError and
\* changes nothing when amount > balance, and succeeds when amount <=
\* balance, leaving a balance of exactly zero when amount = balance (read
\* for a debit that leaves the account, not a transfer to itself).
C3_AsStated ==
    [][call'.api \in Debiting /\ call'.amount > 0 =>
          LET b == balance_of(accounts, call'.self)
          IN  /\ call'.amount > b =>
                   raised' = "InsufficientFundsError" /\ accounts' = accounts
              /\ call'.amount <= b => raised' = "None"
              /\ call'.amount = b /\ ~SelfTransfer(call') =>
                   balance_of(accounts', call'.self) = 0]_vars

\* C3 amended: the same for withdraw, top_up_mobile and a transfer whose
\* target is an account; a transfer of an account's whole balance to itself
\* leaves the balance unchanged, every other debit of the whole balance
\* leaves exactly zero.
C3_DebitGuard ==
    [][call'.api \in Debiting /\ call'.amount > 0 /\ ValidTarget(call') =>
          LET b == balance_of(accounts, call'.self)
          IN  /\ call'.amount > b =>
                   raised' = "InsufficientFundsError" /\ accounts' = accounts
              /\ call'.amount <= b => raised' = "None"
              /\ call'.amount = b =>
                   balance_of(accounts', call'.self) =
                       IF SelfTransfer(call') THEN b ELSE 0]_vars

C3_Witness ==
    /\ call.api = "withdraw" /\ raised = "None"
    /\ balance_of(accounts, call.self) = 0

\* C4: deposit, withdraw and top_up_mobile with amount <= 0 raise
\* InvalidAmountError and change nothing; deposit with amount > 0 returns
\* and sets balance to the old balance plus amount.
C4_InvalidAmount ==
    [][/\ call'.api \in {"deposit", "withdraw", "top_up_mobile"} /\ call'.amount <= 0
          => raised' = "InvalidAmountError" /\ accounts' = accounts
       /\ call'.api = "deposit" /\ call'.amount > 0
          => /\ raised' = "None"
             /\ balance_of(accounts', call'.self) =
                  balance_of(accounts, call'.self) + call'.amount]_vars

C4_Witness ==
    /\ call.api = "deposit" /\ call.amount = 0
    /\ raised = "InvalidAmountError"

\* C5: a successful top_up_mobile moves exactly amount from balance to
\* mobile balance of the same account, so their sum is unchanged.
C5_TopUpMoves ==
    [][call'.api = "top_up_mobile" /\ raised' = "None" =>
          LET s == call'.self
          IN  /\ balance_of(accounts', s) = balance_of(accounts, s) - call'.amount
              /\ mobile_of(accounts', s) = mobile_of(accounts, s) + call'.amount
              /\ balance_of(accounts', s) + mobile_of(accounts', s) =
                   balance_of(accounts, s) + mobile_of(accounts, s)]_vars

C5_Witness ==
    /\ call.api = "top_up_mobile" /\ raised = "None"
    /\ mobile_of(accounts, call.self) = 1000

\* C6: a dispatch whose source account number is not a key of the ledger
\* raises InvalidAccountError for every operation name, recognised or not;
\* a dispatch on an existing account with an unrecognised operation name
\* raises InvalidChoiceError; no balance changes in either case.
C6_AccountBeforeChoice ==
    [][IsDispatch(call') =>
          /\ ~Ledger(call') =>
               raised' = "InvalidAccountError" /\ accounts' = accounts
          /\ Ledger(call') /\ call'.choice \notin Recognised =>
               raised' = "InvalidChoiceError" /\ accounts' = accounts]_vars

C6_Witness ==
    /\ IsDispatch(call) /\ ~Ledger(call) /\ call.choice \notin Recognised
    /\ raised = "InvalidAccountError"

\* C7 as stated: transfer raises InvalidAmountError whenever amount <= 0,
\* whatever the target is; InsufficientFundsError whenever amount >
\* source.balance; InvalidAccountError whenever the target is no account.
C7_AsStated ==
    [][call'.api = "transfer" =>
          LET b == balance_of(accounts, call'.self)
          IN  /\ call'.amount <= 0 => raised' = "InvalidAmountError"
              /\ call'.amount > 0 /\ call'.amount > b =>
                   raised' = "InsufficientFundsError"
              /\ call'.amount > 0 /\ call'.amount <= b /\ ~ValidTarget(call') =>
                   raised' = "InvalidAccountError"]_vars

\* C7 amended: transfer raises InvalidAccountError whenever the target is
\* no account, whatever the amount is; with a target that is an account it
\* raises InvalidAmountError whenever amount <= 0 and InsufficientFundsError
\* whenever amount > source.balance; a transfer that raises changes nothing.
C7_TransferErrors ==
    [][call'.api = "transfer" =>
          LET b == balance_of(accounts, call'.self)
          IN  /\ ~ValidTarget(call') => raised' = "InvalidAccountError"
              /\ ValidTarget(call') /\ call'.amount <= 0 =>
                   raised' = "InvalidAmountError"
              /\ ValidTarget(call') /\ call'.amount > 0 /\ call'.amount > b =>
                   raised' = "InsufficientFundsError"
              /\ raised' # "None" => accounts' = accounts]_vars

C7_Witness ==
    /\ call.api = "transfer" /\ call.amount <= 0
    /\ call.target_account \notin DOMAIN accounts
    /\ raised = "InvalidAccountError"

\* C8 as stated: a transfer dispatch on an existing source account whose
\* amount string is not numeric raises the parse error (ValueError, no
\* BankingException) whether or not the target account number is in the
\* ledger, and the ledger is unchanged.
C8_AsStated ==
    [][NonNumericTransfer(call') =>
          raised' = "ValueError" /\ accounts' = accounts]_vars

\* C8 amended: the target account is resolved before the amount is parsed:
\* such a dispatch raises ValueError when the target account number is in
\* the ledger and InvalidAccountError when it is not; the ledger is
\* unchanged in both cases.
C8_TargetBeforeParse ==
    [][NonNumericTransfer(call') =>
          /\ raised' = IF call'.data["target_account"] \in DOMAIN accounts
                       THEN "ValueError" ELSE "InvalidAccountError"
          /\ accounts' = accounts]_vars

C8_Witness ==
    /\ NonNumericTransfer(call)
    /\ call.data["target_account"] \notin DOMAIN accounts
    /\ raised = "InvalidAccountError"

\* C9: from the seeded ledger, after any sequence of dispatch calls, every
\* balance and every mobile balance is >= 0, and no mobile balance ever
\* decreases from one state to the next.
C9_NonNegative ==
    /\ []NonNegative
    /\ [][\A a \in DOMAIN accounts :
             mobile_of(accounts', a) >= mobile_of(accounts, a)]_vars

C9_Witness ==
    /\ IsDispatch(call) /\ raised = "InsufficientFundsError"
    /\ \E a \in DOMAIN accounts : balance_of(accounts, a) = 0
    /\ \E a \in DOMAIN accounts : mobile_of(accounts, a) > 0

\* C10: a dispatch changes at most the accounts it names: deposit, withdraw
\* and top_up only the source account's balances, transfer only the
\* balances of source and target, balance nothing; account numbers, holder
\* names and the set of accounts never change.  The ledger-wide total of
\* balance + mobile balance grows by amount on a successful deposit, drops
\* by amount on a successful withdraw, and is unchanged by any other call.
C10_Frame ==
    [][IsDispatch(call') =>
          LET c == call'
              moved == IF raised' = "None" /\ c.choice = "deposit"
                       THEN DispatchAmount(c)
                       ELSE IF raised' = "None" /\ c.choice = "withdraw"
                       THEN 0 - DispatchAmount(c)
                       ELSE 0
          IN  /\ DOMAIN accounts' = DOMAIN accounts
              /\ \A a \in DOMAIN accounts :
                    /\ accounts'[a].account_number = accounts[a].account_number
                    /\ accounts'[a].account_holder = accounts[a].account_holder
              /\ c.choice \in {"deposit", "withdraw", "top_up"} =>
                    OthersUnchanged({c.account_number})
              /\ c.choice = "transfer" =>
                    /\ IF has_key(c.data, "target_account")
                       THEN OthersUnchanged({c.account_number,
                                             c.data["target_account"]})
                       ELSE accounts' = accounts
                    /\ \A a \in DOMAIN accounts :
                          mobile_of(accounts', a) = mobile_of(accounts, a)
              /\ c.choice \notin {"deposit", "withdraw", "top_up", "transfer"} =>
                    accounts' = accounts
              /\ Total(accounts') = Total(accounts) + moved]_vars

C10_Witness ==
    /\ IsDispatch(call) /\ call.choice = "transfer" /\ raised = "None"
    /\ call.account_number # call.data["target_account"]

====
